---- MODULE Spec2Model ----
(***************************************************************************)
(* Repetition combinators of framework/src/parsers/multi.rs: SepBy, Fold,  *)
(* FoldMut, Repeat and Many<N>, each a Parser wrapping inner Parsers.      *)
(* One parse call is a sequence of steps, one per inner application, loop  *)
(* exit or teardown iteration; pc is the position inside the call.         *)
(***************************************************************************)
EXTENDS Integers, Sequences, FiniteSets, TLC

\* ------------------------------------------------------------------ bounds
MaxLen == 4          \* longest input text
MaxN == 3            \* largest const generic N of Many<P, N>
ElemSlack == 2       \* Vec capacity beyond the input length before allocation fails
MaxElems == MaxLen + ElemSlack
AccBits == 4         \* width of the accumulator the sample combine functions wrap at
AccMod == 2 ^ AccBits

\* ------------------------------------------------------------ input texts
Digits == {"1", "2"}
Alphabet == Digits \cup {","}
Inputs == UNION {[1..n -> Alphabet] : n \in 0..MaxLen}
Norm(s) == SubSeq(s, 1, Len(s))
Suffix(s, n) == SubSeq(s, n + 1, Len(s))
IsSuffix(r, s) == Len(r) <= Len(s) /\ r = Suffix(s, Len(s) - Len(r))

\* ------------------------------------------- the Parser capability (inner)
NoErr == [by |-> "none", at |-> <<>>]
POk(v, r) == [ok |-> TRUE, value |-> v, rest |-> r, err |-> NoErr]
PErr(p, inp) == [ok |-> FALSE, value |-> 0, rest |-> <<>>, err |-> [by |-> p, at |-> inp]]

DigitVal(c) == IF c = "1" THEN 1 ELSE 2

RECURSIVE DigitRun(_)
DigitRun(inp) ==
  IF inp # <<>> /\ Head(inp) \in Digits THEN 1 + DigitRun(Tail(inp)) ELSE 0

RECURSIVE Decimal(_)
Decimal(s) ==
  IF s = <<>> THEN 0
  ELSE Decimal(SubSeq(s, 1, Len(s) - 1)) * 10 + DigitVal(s[Len(s)])

Parsers == {"digit", "integer", "comma", "eps", "never"}

\* parse(input) -> Result<(Output, remainder), Error> of the sample inner parsers
Apply(p, inp) ==
  CASE p = "digit" ->
         IF inp # <<>> /\ Head(inp) \in Digits
           THEN POk(DigitVal(Head(inp)), Tail(inp)) ELSE PErr(p, inp)
    [] p = "integer" ->
         IF DigitRun(inp) > 0
           THEN POk(Decimal(SubSeq(inp, 1, DigitRun(inp))), Suffix(inp, DigitRun(inp)))
           ELSE PErr(p, inp)
    [] p = "comma" ->
         IF inp # <<>> /\ Head(inp) = "," THEN POk(0, Tail(inp)) ELSE PErr(p, inp)
    [] p = "eps" -> POk(1, inp)
    [] OTHER -> PErr(p, inp)

\* -------------------------------------------------- combine functions (F)
Funcs == {"add", "shift"}
InitialValues == {0, 3}

\* F: Fn(A, P::Output) -> A, returns the new accumulator
Func(f, a, o) ==
  IF f = "add" THEN (a + o) % AccMod ELSE (a * 2 + o + 1) % AccMod

\* F: Fn(&mut A, P::Output), the content of the accumulator after the call
FuncMut(f, a, o) ==
  IF f = "add" THEN (a + o) % AccMod ELSE (a * 2 + o + 1) % AccMod

\* ------------------------------------------------- results of a combinator
ROk(v, r) == [ok |-> TRUE, value |-> v, rest |-> r, err |-> NoErr]
RErr(e) == [ok |-> FALSE, value |-> <<>>, rest |-> <<>>, err |-> e]
NoResult == [ok |-> FALSE, value |-> <<>>, rest |-> <<>>, err |-> NoErr]
NoCall == [kind |-> "none", input |-> <<>>, result |-> NoResult]

Kinds == {"SepBy", "Fold", "FoldMut", "Repeat", "Many"}

\* MaybeUninit<T>: id 0 is an uninitialized slot, id k the output of application k
Uninit == [id |-> 0, value |-> 0]
UninitArray(n) == [j \in 0..(n - 1) |-> Uninit]

VARIABLES
  kind,         \* which combinator the call site invokes
  parser,       \* self.parser
  separator,    \* self.separator (SepBy)
  initial,      \* self.initial (Fold, FoldMut)
  func,         \* self.func (Fold, FoldMut)
  N,            \* const N (Many)
  input,        \* the input view of the running call
  pc,           \* position inside parse
  remainder,    \* local remainder
  after_sep,    \* local after_sep (SepBy)
  elements,     \* local elements (SepBy)
  accumulator,  \* local accumulator (Fold, FoldMut)
  last_value,   \* local last_value (Repeat)
  memory,       \* partially_init.memory (Many)
  count,        \* partially_init.count (Many)
  dropped,      \* iterations of the loop in PartiallyInit::drop already run
  result,       \* the value parse returns
  applied,      \* number of applications of self.parser in this call of Many
  sepTried,     \* whether self.separator was applied in this call
  released,     \* ids of the elements whose destructor ran, in order
  torn,         \* slots on which assume_init_drop ran, in order
  prev          \* kind, input and result of the previous call at this call site

vars == <<kind, parser, separator, initial, func, N, input, pc, remainder,
          after_sep, elements, accumulator, last_value, memory, count, dropped,
          result, applied, sepTried, released, torn, prev>>

config == <<parser, separator, initial, func, N>>

Init ==
  /\ kind \in Kinds
  /\ parser \in Parsers
  /\ separator \in IF kind = "SepBy" THEN Parsers ELSE {"never"}
  /\ initial \in IF kind \in {"Fold", "FoldMut"} THEN InitialValues ELSE {0}
  /\ func \in IF kind \in {"Fold", "FoldMut"} THEN Funcs ELSE {"add"}
  /\ N \in IF kind = "Many" THEN 0..MaxN ELSE {0}
  /\ input \in {Norm(s) : s \in Inputs}
  /\ pc = "entry"
  /\ remainder = <<>>
  /\ after_sep = <<>>
  /\ elements = <<>>
  /\ accumulator = 0
  /\ last_value = 0
  /\ memory = UninitArray(0)
  /\ count = 0
  /\ dropped = 0
  /\ result = NoResult
  /\ applied = 0
  /\ sepTried = FALSE
  /\ released = <<>>
  /\ torn = <<>>
  /\ prev = NoCall

\* --------------------------------------------------------------- SepBy
\* let (element, mut remainder) = self.parser.parse(input)?; elements.push(element)
SepByFirst ==
  /\ pc = "entry" /\ kind = "SepBy"
  /\ LET r == Apply(parser, input) IN
       IF r.ok
         THEN /\ elements' = <<r.value>>
              /\ remainder' = r.rest
              /\ pc' = "sep"
              /\ UNCHANGED result
         ELSE /\ result' = RErr(r.err)
              /\ pc' = "done"
              /\ UNCHANGED <<elements, remainder>>
  /\ UNCHANGED <<kind, config, input, after_sep, accumulator, last_value, memory,
                 count, dropped, applied, sepTried, released, torn, prev>>

SepByOnSepErr_propagated(elems, rem) == RErr(Apply(separator, rem).err)

\* Err(_) => return Ok((elements, remainder)) when the separator fails
SepByOnSepErr(elems, rem) == ROk(elems, rem)

\* let after_sep = match self.separator.parse(remainder)
SepBySep ==
  /\ pc = "sep" /\ kind = "SepBy"
  /\ sepTried' = TRUE
  /\ LET s == Apply(separator, remainder) IN
       IF s.ok
         THEN /\ after_sep' = s.rest
              /\ pc' = "elem"
              /\ UNCHANGED result
         ELSE /\ result' = SepByOnSepErr(elements, remainder)
              /\ pc' = "done"
              /\ UNCHANGED after_sep
  /\ UNCHANGED <<kind, config, input, remainder, elements, accumulator, last_value,
                 memory, count, dropped, applied, released, torn, prev>>

SepByOnElemErr_consumed(elems, rem, aft) == ROk(elems, aft)

\* Err(_) => return Ok((elements, remainder)) when the element after a separator fails
SepByOnElemErr(elems, rem, aft) == ROk(elems, rem)

\* match self.parser.parse(after_sep); Vec::push aborts when allocation fails
SepByElem ==
  /\ pc = "elem" /\ kind = "SepBy"
  /\ LET e == Apply(parser, after_sep) IN
       IF e.ok
         THEN IF Len(elements) < MaxElems
                THEN /\ remainder' = e.rest
                     /\ elements' = Append(elements, e.value)
                     /\ pc' = "sep"
                     /\ UNCHANGED result
                ELSE /\ pc' = "oom"
                     /\ UNCHANGED <<remainder, elements, result>>
         ELSE /\ result' = SepByOnElemErr(elements, remainder, after_sep)
              /\ pc' = "done"
              /\ UNCHANGED <<remainder, elements>>
  /\ UNCHANGED <<kind, config, input, after_sep, accumulator, last_value, memory,
                 count, dropped, applied, sepTried, released, torn, prev>>

\* --------------------------------------------------------------- Fold
FoldAccumulate_swapped(f, acc, v) == Func(f, v, acc)

\* accumulator = (self.func)(accumulator, value)
FoldAccumulate(f, acc, v) == Func(f, acc, v)

\* let mut accumulator = self.initial.clone(); let mut remainder = input
FoldEntry ==
  /\ pc = "entry" /\ kind = "Fold"
  /\ accumulator' = initial
  /\ remainder' = input
  /\ pc' = "loop"
  /\ UNCHANGED <<kind, config, input, after_sep, elements, last_value, memory, count,
                 dropped, result, applied, sepTried, released, torn, prev>>

\* while let Ok((value, new_remainder)) = self.parser.parse(remainder) {..}; Ok(..)
FoldStep ==
  /\ pc = "loop" /\ kind = "Fold"
  /\ LET r == Apply(parser, remainder) IN
       IF r.ok
         THEN /\ accumulator' = FoldAccumulate(func, accumulator, r.value)
              /\ remainder' = r.rest
              /\ UNCHANGED <<pc, result>>
         ELSE /\ result' = ROk(<<accumulator>>, remainder)
              /\ pc' = "done"
              /\ UNCHANGED <<accumulator, remainder>>
  /\ UNCHANGED <<kind, config, input, after_sep, elements, last_value, memory, count,
                 dropped, applied, sepTried, released, torn, prev>>

\* ------------------------------------------------------------- FoldMut
FoldMutFresh_stale(init, before) ==
  IF before.kind = "none" THEN init ELSE before.result.value[1]

\* self.initial.clone(): the accumulator a call starts from
FoldMutFresh(init, before) == init

FoldMutEntry ==
  /\ pc = "entry" /\ kind = "FoldMut"
  /\ accumulator' = FoldMutFresh(initial, prev)
  /\ remainder' = input
  /\ pc' = "loop"
  /\ UNCHANGED <<kind, config, input, after_sep, elements, last_value, memory, count,
                 dropped, result, applied, sepTried, released, torn, prev>>

\* (self.func)(&mut accumulator, value) inside the while let loop
FoldMutStep ==
  /\ pc = "loop" /\ kind = "FoldMut"
  /\ LET r == Apply(parser, remainder) IN
       IF r.ok
         THEN /\ accumulator' = FuncMut(func, accumulator, r.value)
              /\ remainder' = r.rest
              /\ UNCHANGED <<pc, result>>
         ELSE /\ result' = ROk(<<accumulator>>, remainder)
              /\ pc' = "done"
              /\ UNCHANGED <<accumulator, remainder>>
  /\ UNCHANGED <<kind, config, input, after_sep, elements, last_value, memory, count,
                 dropped, applied, sepTried, released, torn, prev>>

\* -------------------------------------------------------------- Repeat
\* match self.parser.parse(input) { Ok(x) => x, Err(e) => return Err(e) }
RepeatFirst ==
  /\ pc = "entry" /\ kind = "Repeat"
  /\ LET r == Apply(parser, input) IN
       IF r.ok
         THEN /\ last_value' = r.value
              /\ remainder' = r.rest
              /\ pc' = "loop"
              /\ UNCHANGED result
         ELSE /\ result' = RErr(r.err)
              /\ pc' = "done"
              /\ UNCHANGED <<last_value, remainder>>
  /\ UNCHANGED <<kind, config, input, after_sep, elements, accumulator, memory, count,
                 dropped, applied, sepTried, released, torn, prev>>

RepeatKeep_first(last, value) == last

\* last_value = value
RepeatKeep(last, value) == value

\* while let Ok((value, new_remainder)) = self.parser.parse(remainder) {..}; Ok(..)
RepeatStep ==
  /\ pc = "loop" /\ kind = "Repeat"
  /\ LET r == Apply(parser, remainder) IN
       IF r.ok
         THEN /\ last_value' = RepeatKeep(last_value, r.value)
              /\ remainder' = r.rest
              /\ UNCHANGED <<pc, result>>
         ELSE /\ result' = ROk(<<last_value>>, remainder)
              /\ pc' = "done"
              /\ UNCHANGED <<last_value, remainder>>
  /\ UNCHANGED <<kind, config, input, after_sep, elements, accumulator, memory, count,
                 dropped, applied, sepTried, released, torn, prev>>

\* ---------------------------------------------------------------- Many
\* PartiallyInit { memory: MaybeUninit::uninit_array(), count: 0 }; remainder = input
ManyEntry ==
  /\ pc = "entry" /\ kind = "Many"
  /\ memory' = UninitArray(N)
  /\ count' = 0
  /\ remainder' = input
  /\ pc' = "loop"
  /\ UNCHANGED <<kind, config, input, after_sep, elements, accumulator, last_value,
                 dropped, result, applied, sepTried, released, torn, prev>>

ManyAdvance_stuck(rem, new) == rem

\* remainder = new_remainder
ManyAdvance(rem, new) == new

\* one iteration of while partially_init.count < N; `?` returns the error and
\* leaves the scope, which runs PartiallyInit::drop
ManyStep ==
  /\ pc = "loop" /\ kind = "Many" /\ count < N
  /\ applied' = applied + 1
  /\ LET r == Apply(parser, remainder) IN
       IF r.ok
         THEN /\ remainder' = ManyAdvance(remainder, r.rest)
              /\ memory' = [memory EXCEPT ![count] = [id |-> applied + 1, value |-> r.value]]
              /\ count' = count + 1
              /\ UNCHANGED <<pc, result>>
         ELSE /\ result' = RErr(r.err)
              /\ pc' = "drop"
              /\ UNCHANGED <<remainder, memory, count>>
  /\ UNCHANGED <<kind, config, input, after_sep, elements, accumulator, last_value,
                 dropped, sepTried, released, torn, prev>>

\* swap(&mut memory, &mut partially_init.memory); array_assume_init(memory);
\* Ok((result, remainder)): partially_init keeps count and goes out of scope
ManySwap ==
  /\ pc = "loop" /\ kind = "Many" /\ ~(count < N)
  /\ result' = ROk([j \in 1..N |-> memory[j - 1].value], remainder)
  /\ memory' = UninitArray(N)
  /\ pc' = "drop"
  /\ UNCHANGED <<kind, config, input, remainder, after_sep, elements, accumulator,
                 last_value, count, dropped, applied, sepTried, released, torn, prev>>

DropRange_forward(c) == [j \in 1..c |-> j - 1]

\* (0..self.count).rev(): the slot indices in the order drop visits them
DropRange(c) == [j \in 1..c |-> c - j]

\* what assume_init_drop can do on a slot that holds no initialized element
UninitDropOutcomes == {"noop", "alias", "crash"}

\* one iteration of the loop in PartiallyInit::drop: self.memory[i].assume_init_drop()
DropStep ==
  /\ pc = "drop" /\ dropped < Len(DropRange(count))
  /\ LET i == DropRange(count)[dropped + 1] IN
       /\ dropped' = dropped + 1
       /\ torn' = Append(torn, [slot |-> i, init |-> memory[i].id # 0])
       /\ IF memory[i].id # 0
            THEN /\ released' = Append(released, memory[i].id)
                 /\ memory' = [memory EXCEPT ![i] = Uninit]
                 /\ UNCHANGED pc
            ELSE \E o \in UninitDropOutcomes :
                   CASE o = "noop" ->
                          UNCHANGED <<released, memory, pc>>
                     [] o = "alias" ->
                          /\ \E e \in 1..applied : released' = Append(released, e)
                          /\ UNCHANGED <<memory, pc>>
                     [] OTHER ->
                          /\ pc' = "crash"
                          /\ UNCHANGED <<released, memory>>
  /\ UNCHANGED <<kind, config, input, remainder, after_sep, elements, accumulator,
                 last_value, count, result, applied, sepTried, prev>>

\* drop has visited every slot below count: parse returns
DropEnd ==
  /\ pc = "drop" /\ dropped = Len(DropRange(count))
  /\ pc' = "done"
  /\ UNCHANGED <<kind, config, input, remainder, after_sep, elements, accumulator,
                 last_value, memory, count, dropped, result, applied, sepTried,
                 released, torn, prev>>

\* ------------------------------------------------------- the call site
\* the combinators a call site holds over the same parts
SameParts(k) == IF k \in {"Fold", "FoldMut"} THEN {"Fold", "FoldMut"} ELSE {k}
NextInputs(inp) == {inp} \cup (IF inp = <<>> THEN {} ELSE {Tail(inp)})

\* the combinator is immutable and invoked again once parse has returned
Call ==
  /\ pc = "done"
  /\ prev' = [kind |-> kind, input |-> input, result |-> result]
  /\ kind' \in SameParts(kind)
  /\ input' \in NextInputs(input)
  /\ pc' = "entry"
  /\ remainder' = <<>>
  /\ after_sep' = <<>>
  /\ elements' = <<>>
  /\ accumulator' = 0
  /\ last_value' = 0
  /\ memory' = UninitArray(0)
  /\ count' = 0
  /\ dropped' = 0
  /\ result' = NoResult
  /\ applied' = 0
  /\ sepTried' = FALSE
  /\ released' = <<>>
  /\ torn' = <<>>
  /\ UNCHANGED config

Step ==
  \/ SepByFirst \/ SepBySep \/ SepByElem
  \/ FoldEntry \/ FoldStep
  \/ FoldMutEntry \/ FoldMutStep
  \/ RepeatFirst \/ RepeatStep
  \/ ManyEntry \/ ManyStep \/ ManySwap \/ DropStep \/ DropEnd

Next == Step \/ Call

Spec == Init /\ [][Next]_vars

\* parse is synchronous: the running call keeps taking its next step
FairSpec == Spec /\ WF_vars(Step)

\* ------------------------------------------------- reference definitions
\* number of consecutive successes of p from inp, counted up to n
RECURSIVE Successes(_, _, _)
Successes(p, inp, n) ==
  IF n = 0 THEN 0
  ELSE IF Apply(p, inp).ok THEN 1 + Successes(p, Apply(p, inp).rest, n - 1) ELSE 0

\* the remainder after j consecutive successes of p from inp
RECURSIVE RestAfter(_, _, _)
RestAfter(p, inp, j) ==
  IF j = 0 THEN inp ELSE RestAfter(p, Apply(p, inp).rest, j - 1)

\* the outputs of the first j consecutive successes of p from inp
RECURSIVE FirstOutputs(_, _, _)
FirstOutputs(p, inp, j) ==
  IF j = 0 THEN <<>>
  ELSE <<Apply(p, inp).value>> \o FirstOutputs(p, Apply(p, inp).rest, j - 1)

\* the outputs o1..om of the maximal run of consecutive successes (finite runs only)
RECURSIVE RunOutputs(_, _)
RunOutputs(p, inp) ==
  IF Apply(p, inp).ok
    THEN <<Apply(p, inp).value>> \o RunOutputs(p, Apply(p, inp).rest)
    ELSE <<>>

\* the remainder left by the last success of the maximal run
RECURSIVE RunRest(_, _)
RunRest(p, inp) ==
  IF Apply(p, inp).ok THEN RunRest(p, Apply(p, inp).rest) ELSE inp

\* combine(...combine(combine(a, o1), o2)..., om)
RECURSIVE FoldL(_, _, _)
FoldL(f, a, outs) ==
  IF outs = <<>> THEN a ELSE FoldL(f, Func(f, a, Head(outs)), Tail(outs))

\* the (separator, element) pairs that follow the first element, each taken whole
RECURSIVE SepPairs(_, _, _)
SepPairs(p, s, rem) ==
  IF ~Apply(s, rem).ok THEN [elems |-> <<>>, rest |-> rem]
  ELSE IF ~Apply(p, Apply(s, rem).rest).ok THEN [elems |-> <<>>, rest |-> rem]
  ELSE LET e == Apply(p, Apply(s, rem).rest)
           t == SepPairs(p, s, e.rest)
       IN [elems |-> <<e.value>> \o t.elems, rest |-> t.rest]

Returned == pc = "done"

\* ------------------------------------------------------------------ C1
\* C1: when Many<N> fails on application k (1 <= k <= N), parse returns the k-th
\* application's error and no output, the inner parser was applied exactly k
\* times, and the k-1 outputs were released once each in reverse order of
\* production (slots k-2 down to 0); no slot with index >= k-1 is torn down.
C1_ManyFailureTeardown ==
  (kind = "Many" /\ Returned /\ Successes(parser, input, N) < N) =>
    LET k == Successes(parser, input, N) + 1 IN
      /\ result = RErr(Apply(parser, RestAfter(parser, input, k - 1)).err)
      /\ applied = k
      /\ released = [j \in 1..(k - 1) |-> k - j]
      /\ torn = [j \in 1..(k - 1) |-> [slot |-> k - 1 - j, init |-> TRUE]]

C1_Witness ==
  /\ kind = "Many" /\ Returned /\ N = 3 /\ ~result.ok
  /\ applied = 3 /\ released = <<2, 1>>
  /\ result.err.at # input

\* ------------------------------------------------------------------ C2
\* C2: when Many<N> succeeds, parse tears down no slot and releases no element:
\* the guard is disarmed once the N elements are handed to the caller.
C2_SuccessDisarmsGuard ==
  (kind = "Many" /\ pc \in {"drop", "done", "crash"} /\ result.ok) =>
    (torn = <<>> /\ released = <<>>)

\* ------------------------------------------------------------------ C3
\* C3: after the first element a (separator, element) pair is atomic: SepBy
\* succeeds with the elements of the complete pairs only and with the remainder
\* r from before the failed separator attempt or the failed pair; on "1,2,"
\* with element=integer and separator="," it gives [1,2] and remainder ",".
C3_SepByAtomicPair ==
  (kind = "SepBy" /\ Returned /\ result.ok) =>
    LET first == Apply(parser, input)
        ref == SepPairs(parser, separator, first.rest)
        r == result.rest
    IN /\ result.value = <<first.value>> \o ref.elems
       /\ r = ref.rest
       /\ \/ ~Apply(separator, r).ok
          \/ ~Apply(parser, Apply(separator, r).rest).ok
       /\ (parser = "integer" /\ separator = "comma" /\ input = <<"1", ",", "2", ",">>)
            => result = ROk(<<1, 2>>, <<",">>)

C3_Witness ==
  /\ kind = "SepBy" /\ Returned /\ result.ok
  /\ parser = "integer" /\ separator = "comma" /\ input = <<"1", ",", "2", ",">>
  /\ Apply(separator, result.rest).ok
  /\ ~Apply(parser, Apply(separator, result.rest).rest).ok
  /\ result.rest = <<",">>

\* ------------------------------------------------------------------ C4
\* C4: every parse call returns after finitely many inner applications, also
\* when an inner parser succeeds without consuming input.
C4_EveryCallReturns == (pc = "entry") ~> (pc = "done")

\* ------------------------------------------------------------------ C5
\* C5: Fold never returns a failure; it returns the left fold of combine over
\* the outputs of the maximal run of successes, starting from initial, and the
\* remainder of the last success; with no success, initial and the input itself.
C5_FoldIsLeftFold ==
  (kind = "Fold" /\ Returned) =>
    /\ result.ok /\ result.err = NoErr
    /\ result.value = <<FoldL(func, initial, RunOutputs(parser, input))>>
    /\ result.rest = RunRest(parser, input)
    /\ ~Apply(parser, input).ok => result = ROk(<<initial>>, input)

C5_Witness ==
  /\ kind = "Fold" /\ Returned /\ func = "shift"
  /\ Len(RunOutputs(parser, input)) >= 2
  /\ RunOutputs(parser, input)[1] # RunOutputs(parser, input)[2]
  /\ result.rest # <<>>

\* ------------------------------------------------------------------ C6
\* C6: Repeat fails iff the first application fails, then with exactly that
\* application's error; otherwise it returns the last output of the maximal run
\* of successes and the remainder right after it.
C6_RepeatLastWins ==
  (kind = "Repeat" /\ Returned) =>
    LET first == Apply(parser, input) IN
      /\ result.ok <=> first.ok
      /\ ~first.ok => result = RErr(first.err)
      /\ first.ok =>
           LET outs == RunOutputs(parser, input) IN
             result = ROk(<<outs[Len(outs)]>>, RunRest(parser, input))

C6_Witness ==
  /\ kind = "Repeat" /\ Returned /\ result.ok
  /\ Len(RunOutputs(parser, input)) >= 2
  /\ result.value # <<Apply(parser, input).value>>
  /\ result.rest # <<>>

\* ------------------------------------------------------------------ C7
\* C7: SepBy fails iff the first element application fails, then with the
\* element's error and without applying the separator; otherwise it succeeds
\* with at least one element, in input order, whatever the separator does.
C7_SepByFailsIffFirstFails ==
  (kind = "SepBy" /\ Returned) =>
    LET first == Apply(parser, input) IN
      /\ result.ok <=> first.ok
      /\ ~first.ok => (result = RErr(first.err) /\ ~sepTried)
      /\ first.ok =>
           /\ Len(result.value) >= 1
           /\ result.value =
                <<first.value>> \o SepPairs(parser, separator, first.rest).elems

C7_Witness ==
  /\ kind = "SepBy" /\ Returned /\ ~result.ok
  /\ Apply(separator, input).ok /\ ~sepTried
  /\ result.err = [by |-> parser, at |-> input] /\ input # <<>>

\* ------------------------------------------------------------------ C8
\* C8: Many<N> succeeds exactly when the inner parser succeeds on N consecutive
\* applications; the result holds the N outputs in application order and the
\* remainder of the N-th application, after exactly N applications.
C8_ManySucceedsExactlyWhen ==
  (kind = "Many" /\ pc \in {"done", "crash"}) =>
    LET can == Successes(parser, input, N) = N IN
      /\ (pc = "done" /\ result.ok) <=> can
      /\ (pc = "done" /\ can) =>
           /\ result = ROk(FirstOutputs(parser, input, N), RestAfter(parser, input, N))
           /\ applied = N

\* ------------------------------------------------------------------ C9
\* C9: FoldMut with g doing a := f(a, o) returns what Fold with f returns on the
\* same input, neither fails, and every call starts from a fresh copy of
\* initial: a call is unaffected by the call before it.
C9_FoldMutEqualsFold ==
  (kind \in {"Fold", "FoldMut"} /\ Returned) =>
    /\ result.ok
    /\ (prev.kind \in {"Fold", "FoldMut"} /\ prev.input = input) => result = prev.result
    /\ result = ROk(<<FoldL(func, initial, RunOutputs(parser, input))>>,
                    RunRest(parser, input))

C9_Witness ==
  /\ kind = "FoldMut" /\ Returned /\ prev.kind = "Fold" /\ prev.input = input
  /\ result.value # <<initial>> /\ func = "shift"
  /\ Len(RunOutputs(parser, input)) >= 2

\* ------------------------------------------------------------------ C10
\* C10: a successful parse returns a remainder that is a suffix of its input,
\* namely the one left by the last element application counted in the result
\* (the input itself when none is counted); a failure carries no partial result.
CountedRest ==
  CASE kind = "SepBy" ->
         SepPairs(parser, separator, Apply(parser, input).rest).rest
    [] kind = "Many" -> RestAfter(parser, input, N)
    [] OTHER -> RunRest(parser, input)

C10_RemainderIsSuffix ==
  Returned =>
    /\ ~result.ok => (result.value = <<>> /\ result.rest = <<>>)
    /\ result.ok => (IsSuffix(result.rest, input) /\ result.rest = CountedRest)

C10_Witness ==
  /\ kind = "Many" /\ Returned /\ result.ok /\ N = 2
  /\ result.rest # <<>> /\ result.rest # input
  /\ Len(result.rest) = Len(input) - 2
====
